---- MODULE Spec2Model ----
(***************************************************************************)
(* SimpleHashTable<i64, i64, SimpleHasher> of src/src/lib.rs: an open      *)
(* addressing hash table with linear probing, a tombstone bit set and      *)
(* growth to 2 * capacity + 1.                                             *)
(*                                                                         *)
(* usize values are kept exact.  A value is the record [top, off]: it is   *)
(* off when top is FALSE and 2^64 - off when top is TRUE, so the cast of a *)
(* negative i64 key, the overflow of hashed + i and the remainder by the   *)
(* capacity are all computed as the 64 bit machine computes them.          *)
(***************************************************************************)
EXTENDS Integers, FiniteSets, TLC

VARIABLES
    data,             \* self.data: index -> Option<KVPair>
    deleted,          \* self.deleted: the BitSet, as the set of its indices
    slots_used,       \* self.slots_used
    deleted_slots,    \* self.deleted_slots
    overflow_checks,  \* the build: TRUE panics on usize overflow, FALSE wraps
    panicked,         \* "no", or the panic that ended the thread
    last,             \* the insert or delete that ran last, or what panicked
    live,             \* history: key -> value inserted and not deleted since
    fresh_only,       \* history: only inserts of never inserted keys so far
    churn             \* history: position in an insert(k); delete(k) sequence

vars == <<data, deleted, slots_used, deleted_slots, overflow_checks, panicked,
          last, live, fresh_only, churn>>

----------------------------------------------------------------------------
\* Bounds of the model.
NegKeys == 1
MaxKey == 2
MaxValue == 2
MaxInitCapacity == 2
MaxCapacity == 5

Keys == (0 - NegKeys)..MaxKey
NonNegKeys == 0..MaxKey
Values == 1..MaxValue
NoValue == 0

\* usize is a 64 bit word.
WordBits == 64

----------------------------------------------------------------------------
\* Option<KVPair<K, V>>
None == [some |-> FALSE, key |-> 0, value |-> 0]
Some(k, v) == [some |-> TRUE, key |-> k, value |-> v]
\* Some(KVPair::default()): what std::mem::replace leaves in the old array.
DefaultKV == Some(0, 0)

\* Vec::resize_with(capacity, || None)
EmptyData(capacity) == [i \in 0..(capacity - 1) |-> None]

\* self.data.len()
capacity_of(d) == Cardinality(DOMAIN d)

\* 2^b mod n, for n > 0
RECURSIVE Pow2Mod(_, _)
Pow2Mod(b, n) ==
    IF b = 0 THEN 1 % n
    ELSE IF b % 2 = 0
         THEN LET r == Pow2Mod(b \div 2, n) IN (r * r) % n
         ELSE (2 * Pow2Mod(b - 1, n)) % n

\* SimpleHasher::hash: *key as usize
hash(key) ==
    IF key >= 0 THEN [top |-> FALSE, off |-> key]
                ELSE [top |-> TRUE, off |-> 0 - key]

\* hashed + i on usize; ovf says that the sum passed 2^64 (the wrapped sum
\* is then the value given).
usize_add(h, i) ==
    IF ~h.top THEN [ovf |-> FALSE, top |-> FALSE, off |-> h.off + i]
    ELSE IF i < h.off THEN [ovf |-> FALSE, top |-> TRUE, off |-> h.off - i]
    ELSE [ovf |-> TRUE, top |-> FALSE, off |-> i - h.off]

\* x % n on usize, n > 0
usize_rem(x, n) ==
    IF ~x.top THEN x.off % n
    ELSE (Pow2Mod(WordBits, n) + n - (x.off % n)) % n

\* (hashed + i) % len: the sum is evaluated first (it panics on overflow in a
\* build with overflow checks and wraps otherwise), then the remainder (which
\* panics when len is 0).
probe_pos(key, i, len, checks) ==
    LET sum == usize_add(hash(key), i) IN
    IF sum.ovf /\ checks THEN [tag |-> "overflow", pos |-> 0]
    ELSE IF len = 0 THEN [tag |-> "divzero", pos |-> 0]
    ELSE [tag |-> "ok", pos |-> usize_rem(sum, len)]

----------------------------------------------------------------------------
\* The four fields of SimpleHashTable that the operations read and write.
Table(d, del, used, dslots) ==
    [data |-> d, deleted |-> del, slots_used |-> used, deleted_slots |-> dslots]

Self == Table(data, deleted, slots_used, deleted_slots)

\* get_pos: Option<usize>; tag is "some", "none" or the panic it ended in.
RECURSIVE get_pos_loop(_, _, _, _, _)
get_pos_loop(t, total_slots, key, checks, i) ==
    IF i >= total_slots THEN [tag |-> "none", pos |-> 0]
    ELSE LET p == probe_pos(key, i, capacity_of(t.data), checks) IN
         IF p.tag # "ok" THEN [tag |-> p.tag, pos |-> 0]
         ELSE IF ~t.data[p.pos].some THEN [tag |-> "none", pos |-> 0]
         ELSE IF p.pos \in t.deleted
              THEN get_pos_loop(t, total_slots, key, checks, i + 1)
         ELSE IF t.data[p.pos].key = key THEN [tag |-> "some", pos |-> p.pos]
         ELSE get_pos_loop(t, total_slots, key, checks, i + 1)

\* Mutant of get_pos: the scan has one step more than slots are counted.
get_pos_extra_step(t, key, checks) ==
    get_pos_loop(t, t.deleted_slots + t.slots_used + 1, key, checks, 0)

get_pos(t, key, checks) ==
    get_pos_loop(t, t.deleted_slots + t.slots_used, key, checks, 0)

\* has: tag is "true", "false" or the panic it ended in.
RECURSIVE has_loop(_, _, _, _, _)
has_loop(t, total_slots, key, checks, i) ==
    IF i >= total_slots THEN "false"
    ELSE LET p == probe_pos(key, i, capacity_of(t.data), checks) IN
         IF p.tag # "ok" THEN p.tag
         ELSE IF ~t.data[p.pos].some THEN "false"
         ELSE IF p.pos \in t.deleted
              THEN has_loop(t, total_slots, key, checks, i + 1)
         ELSE IF t.data[p.pos].key = key THEN "true"
         ELSE has_loop(t, total_slots, key, checks, i + 1)

has(t, key, checks) ==
    has_loop(t, t.deleted_slots + t.slots_used, key, checks, 0)

\* get: Option<V>; tag is "some" (with the cloned value), "none" or the panic.
RECURSIVE get_loop(_, _, _, _, _)
get_loop(t, total_slots, key, checks, i) ==
    IF i >= total_slots THEN [tag |-> "none", value |-> NoValue]
    ELSE LET p == probe_pos(key, i, capacity_of(t.data), checks) IN
         IF p.tag # "ok" THEN [tag |-> p.tag, value |-> NoValue]
         ELSE IF ~t.data[p.pos].some THEN [tag |-> "none", value |-> NoValue]
         ELSE IF p.pos \in t.deleted
              THEN get_loop(t, total_slots, key, checks, i + 1)
         ELSE IF t.data[p.pos].key = key
              THEN [tag |-> "some", value |-> t.data[p.pos].value]
         ELSE get_loop(t, total_slots, key, checks, i + 1)

get(t, key, checks) ==
    get_loop(t, t.deleted_slots + t.slots_used, key, checks, 0)

----------------------------------------------------------------------------
\* Mutant of place: the entry goes to its home slot whether or not the slot
\* is vacant.
place_home_slot(new_data, kv, next_capacity, checks, i) ==
    LET p == probe_pos(kv.key, 0, next_capacity, checks) IN
    IF p.tag # "ok" THEN [tag |-> p.tag, data |-> new_data]
    ELSE [tag |-> "placed", data |-> [new_data EXCEPT ![p.pos] = kv]]

\* simple_resizer, inner loop: the first vacant slot of new_data on kv's probe.
RECURSIVE place(_, _, _, _, _)
place(new_data, kv, next_capacity, checks, i) ==
    IF i >= next_capacity THEN [tag |-> "unplaced", data |-> new_data]
    ELSE LET p == probe_pos(kv.key, i, next_capacity, checks) IN
         IF p.tag # "ok" THEN [tag |-> p.tag, data |-> new_data]
         ELSE IF new_data[p.pos].some
              THEN place(new_data, kv, next_capacity, checks, i + 1)
         ELSE [tag |-> "placed", data |-> [new_data EXCEPT ![p.pos] = kv]]

\* simple_resizer, outer loop over the old array; a moved entry leaves
\* KVPair::default() behind in the old array.
RECURSIVE rehash(_, _, _, _, _, _)
rehash(old, del, new_data, next_capacity, checks, i) ==
    IF i >= capacity_of(old) THEN [tag |-> "ok", old |-> old, new |-> new_data]
    ELSE IF old[i].some /\ i \notin del
         THEN LET r == place(new_data, old[i], next_capacity, checks, 0) IN
              IF r.tag = "placed"
              THEN rehash([old EXCEPT ![i] = DefaultKV], del, r.data,
                          next_capacity, checks, i + 1)
              ELSE IF r.tag = "unplaced"
              THEN rehash(old, del, new_data, next_capacity, checks, i + 1)
              ELSE [tag |-> r.tag, old |-> old, new |-> new_data]
    ELSE rehash(old, del, new_data, next_capacity, checks, i + 1)

\* simple_resizer: the table after it returned true, or, when it panicked,
\* the table it had got to (tag names the panic).
simple_resizer(t, next_capacity, checks) ==
    LET r == rehash(t.data, t.deleted, EmptyData(next_capacity),
                    next_capacity, checks, 0) IN
    IF r.tag = "ok"
    THEN [tag |-> "ok", table |-> Table(r.new, {}, t.slots_used, 0)]
    ELSE [tag |-> r.tag,
          table |-> Table(r.old, t.deleted, t.slots_used, t.deleted_slots)]

----------------------------------------------------------------------------
\* Mutant of needs_growth: grows only once the count has passed the capacity.
needs_growth_strict(total_used, current_capacity) ==
    total_used > current_capacity

\* insert: total_used >= current_capacity
needs_growth(total_used, current_capacity) == total_used >= current_capacity

\* Mutant of next_capacity_of: halves the capacity where it should double it.
next_capacity_halved(current_capacity) == current_capacity \div 2

\* Mutant of next_capacity_of: doubles the capacity without the + 1.
next_capacity_double(current_capacity) == current_capacity * 2

\* insert: current_capacity * 2 + 1
next_capacity_of(current_capacity) == current_capacity * 2 + 1

\* insert, the placing loop: the first slot on the key's probe that is None
\* or marked deleted takes the entry.
RECURSIVE insert_loop(_, _, _, _, _, _)
insert_loop(t, total_used, key, value, checks, i) ==
    IF i >= total_used + 1 THEN [tag |-> "ok", table |-> t]
    ELSE LET p == probe_pos(key, i, capacity_of(t.data), checks) IN
         IF p.tag # "ok" THEN [tag |-> p.tag, table |-> t]
         ELSE IF t.data[p.pos].some /\ p.pos \notin t.deleted
              THEN insert_loop(t, total_used, key, value, checks, i + 1)
         ELSE [tag |-> "ok",
               table |-> Table([t.data EXCEPT ![p.pos] = Some(key, value)],
                               t.deleted \ {p.pos},
                               t.slots_used + 1, t.deleted_slots)]

\* insert, after get_pos found nothing: grow when needed, then place.
insert_new(t, key, value, checks) ==
    LET current_capacity == capacity_of(t.data)
        total_used == t.slots_used + t.deleted_slots
        grown == IF needs_growth(total_used, current_capacity)
                 THEN simple_resizer(t, next_capacity_of(current_capacity), checks)
                 ELSE [tag |-> "ok", table |-> t]
    IN  IF grown.tag # "ok" THEN grown
        ELSE insert_loop(grown.table,
                         grown.table.slots_used + grown.table.deleted_slots,
                         key, value, checks, 0)

\* insert: [tag, table]; tag is "ok" or the panic it ended in.
insert(t, key, value, checks) ==
    LET found_pos == get_pos(t, key, checks) IN
    IF found_pos.tag = "some"
    THEN [tag |-> "ok",
          table |-> [t EXCEPT !.data[found_pos.pos] = Some(key, value)]]
    ELSE IF found_pos.tag # "none" THEN [tag |-> found_pos.tag, table |-> t]
    ELSE insert_new(t, key, value, checks)

\* insert would grow the table to this capacity (0 when it does not grow).
growth_target(t, key, checks) ==
    IF get_pos(t, key, checks).tag = "none"
       /\ needs_growth(t.slots_used + t.deleted_slots, capacity_of(t.data))
    THEN next_capacity_of(capacity_of(t.data))
    ELSE 0

----------------------------------------------------------------------------
\* Mutant of delete_found: slots_used is not decremented.
delete_found_keeps_count(t, curr) ==
    Table([t.data EXCEPT ![curr] = None], t.deleted \cup {curr},
          t.slots_used, t.deleted_slots + 1)

\* Mutant of delete_found: the entry stays in the slot it is marked in.
delete_found_keeps_entry(t, curr) ==
    Table(t.data, t.deleted \cup {curr}, t.slots_used - 1, t.deleted_slots + 1)

\* delete, the found branch: mark the slot, move one from slots_used to
\* deleted_slots, take the entry out of the slot.
delete_found(t, curr) ==
    Table([t.data EXCEPT ![curr] = None], t.deleted \cup {curr},
          t.slots_used - 1, t.deleted_slots + 1)

\* delete: [tag, table]; tag is "ok" or the panic it ended in.
RECURSIVE delete_loop(_, _, _, _, _)
delete_loop(t, slots_to_check, key, checks, i) ==
    IF i >= slots_to_check THEN [tag |-> "ok", table |-> t]
    ELSE LET p == probe_pos(key, i, capacity_of(t.data), checks) IN
         IF p.tag # "ok" THEN [tag |-> p.tag, table |-> t]
         ELSE IF ~t.data[p.pos].some THEN [tag |-> "ok", table |-> t]
         ELSE IF p.pos \in t.deleted
              THEN delete_loop(t, slots_to_check, key, checks, i + 1)
         ELSE IF t.data[p.pos].key = key
              THEN [tag |-> "ok", table |-> delete_found(t, p.pos)]
         ELSE delete_loop(t, slots_to_check, key, checks, i + 1)

delete(t, key, checks) ==
    delete_loop(t, t.slots_used + t.deleted_slots, key, checks, 0)

----------------------------------------------------------------------------
\* The state machine.

Op(name, key, value) == [op |-> name, key |-> key, value |-> value]

SetTable(t) ==
    /\ data' = t.data
    /\ deleted' = t.deleted
    /\ slots_used' = t.slots_used
    /\ deleted_slots' = t.deleted_slots

\* create_simple_hash_table(capacity), in either build.
Init ==
    /\ \E c \in 0..MaxInitCapacity : data = EmptyData(c)
    /\ deleted = {}
    /\ slots_used = 0
    /\ deleted_slots = 0
    /\ overflow_checks \in BOOLEAN
    /\ panicked = "no"
    /\ last = Op("new", 0, 0)
    /\ live = [k \in Keys |-> NoValue]
    /\ fresh_only = TRUE
    /\ churn = [at |-> "even", key |-> 0]

Insert(k, v) ==
    /\ panicked = "no"
    /\ growth_target(Self, k, overflow_checks) <= MaxCapacity
    /\ LET r == insert(Self, k, v, overflow_checks) IN
       /\ SetTable(r.table)
       /\ last' = Op("insert", k, v)
       /\ panicked' = IF r.tag = "ok" THEN "no" ELSE r.tag
       /\ IF r.tag = "ok"
          THEN /\ live' = [live EXCEPT ![k] = v]
               /\ fresh_only' = (fresh_only /\ live[k] = NoValue)
               /\ churn' = IF churn.at = "even"
                           THEN [at |-> "odd", key |-> k]
                           ELSE [at |-> "off", key |-> 0]
          ELSE UNCHANGED <<live, fresh_only, churn>>
    /\ UNCHANGED overflow_checks

Delete(k) ==
    /\ panicked = "no"
    /\ LET r == delete(Self, k, overflow_checks) IN
       /\ SetTable(r.table)
       /\ last' = Op("delete", k, NoValue)
       /\ panicked' = IF r.tag = "ok" THEN "no" ELSE r.tag
       /\ IF r.tag = "ok"
          THEN /\ live' = [live EXCEPT ![k] = NoValue]
               /\ fresh_only' = FALSE
               /\ churn' = IF churn.at = "odd" /\ churn.key = k
                           THEN [at |-> "even", key |-> 0]
                           ELSE [at |-> "off", key |-> 0]
          ELSE UNCHANGED <<live, fresh_only, churn>>
    /\ UNCHANGED overflow_checks

\* has and get read the table; what they return is has(Self, k, _) and
\* get(Self, k, _), and the only trace they leave is a panic.
Has(k) ==
    /\ panicked = "no"
    /\ LET r == has(Self, k, overflow_checks) IN
       IF r \in {"true", "false"}
       THEN UNCHANGED <<panicked, last>>
       ELSE panicked' = r /\ last' = Op("has", k, NoValue)
    /\ UNCHANGED <<data, deleted, slots_used, deleted_slots, overflow_checks,
                   live, fresh_only, churn>>

Get(k) ==
    /\ panicked = "no"
    /\ LET r == get(Self, k, overflow_checks) IN
       IF r.tag \in {"some", "none"}
       THEN UNCHANGED <<panicked, last>>
       ELSE panicked' = r.tag /\ last' = Op("get", k, NoValue)
    /\ UNCHANGED <<data, deleted, slots_used, deleted_slots, overflow_checks,
                   live, fresh_only, churn>>

NextOver(K, V) ==
    \/ \E k \in K, v \in V : Insert(k, v)
    \/ \E k \in K : Delete(k)
    \/ \E k \in K : Has(k)
    \/ \E k \in K : Get(k)

\* Keys of either sign.
Next == NextOver(Keys, Values)
Spec == Init /\ [][Next]_vars

\* Keys whose hash is the key itself: no sum hashed + i passes 2^64.
NextNonNeg == NextOver(NonNegKeys, Values)
SpecNonNeg == Init /\ [][NextNonNeg]_vars

\* Keys of either sign, every entry with the same value: no branch of insert,
\* delete, has or get reads a value.
NextOneValue == NextOver(Keys, {1})
SpecOneValue == Init /\ [][NextOneValue]_vars

\* The sequences insert(k, v); delete(k); insert(k2, v2); delete(k2); ... of
\* tests::overflow_delete_test, on keys of either sign.
NextChurn ==
    \/ \E k \in Keys, v \in Values : churn.at = "even" /\ Insert(k, v)
    \/ \E k \in Keys : churn.at = "odd" /\ churn.key = k /\ Delete(k)
SpecChurn == Init /\ [][NextChurn]_vars

\* size(), capacity(), wasted_capacity()
size == slots_used
capacity == capacity_of(data)
wasted_capacity == deleted_slots

SelfNext == Table(data', deleted', slots_used', deleted_slots')

\* The keys inserted and not deleted since.
LiveKeys == {k \in Keys : live[k] # NoValue}

\* Some slot of the array holds an entry with this key.
Stored(k) == \E i \in DOMAIN data : data[i].some /\ data[i].key = k

----------------------------------------------------------------------------
\* C1: in every state reached by completed inserts and deletes, every key
\* inserted and not deleted since is found: has(k) is true and get(k) is
\* non-empty.
C1_LiveKeysFound ==
    panicked = "no" =>
        \A k \in LiveKeys :
            /\ has(Self, k, overflow_checks) = "true"
            /\ get(Self, k, overflow_checks).tag = "some"

\* C2: insert(k, v) of a key inserted earlier and not deleted since leaves
\* size(), capacity() and wasted_capacity() unchanged.
C2_ReinsertKeepsSize ==
    [][(last'.op = "insert" /\ panicked' = "no" /\ live[last'.key] # NoValue)
         => /\ slots_used' = slots_used
            /\ capacity_of(data') = capacity_of(data)
            /\ deleted_slots' = deleted_slots]_vars

\* C3: immediately after insert(k, v) returns, get(k) returns exactly v.
C3_GetReturnsInserted ==
    (last.op = "insert" /\ panicked = "no") =>
        get(Self, last.key, overflow_checks)
            = [tag |-> "some", value |-> last.value]

\* C4: delete(k) of a key inserted and not deleted since makes has(k) false
\* and get(k) empty, decreases size() by exactly 1 and increases
\* wasted_capacity() by exactly 1.
C4_DeletePresent ==
    [][(last'.op = "delete" /\ panicked' = "no" /\ live[last'.key] # NoValue)
         => /\ has(SelfNext, last'.key, overflow_checks) = "false"
            /\ get(SelfNext, last'.key, overflow_checks).tag = "none"
            /\ slots_used' = slots_used - 1
            /\ deleted_slots' = deleted_slots + 1]_vars

\* C5: delete(k) of a key that no slot of the table stores is a silent
\* no-op: it returns, and size(), capacity(), wasted_capacity(), every slot
\* and the tombstone set are unchanged.
C5_DeleteAbsentNoOp ==
    [][(last'.op = "delete" /\ ~Stored(last'.key))
         => /\ panicked' = "no"
            /\ UNCHANGED <<data, deleted, slots_used, deleted_slots>>]_vars

\* C5, the frame alone: whether or not delete(k) of a key that no slot
\* stores returns, the table is as it was.
C5_DeleteAbsentFrame ==
    [][(last'.op = "delete" /\ ~Stored(last'.key))
         => UNCHANGED <<data, deleted, slots_used, deleted_slots>>]_vars

\* C6: size() + wasted_capacity() <= capacity() in every reachable state,
\* from any initial capacity >= 0.
C6_SizePlusWastedWithinCapacity == size + wasted_capacity <= capacity

\* C6 witness: a table that has grown, holds tombstones and is full.
C6_Witness ==
    /\ capacity > MaxInitCapacity
    /\ wasted_capacity > 0
    /\ size > 0
    /\ size + wasted_capacity = capacity

\* C7: after inserts of pairwise distinct keys alone on a fresh table,
\* size() is the number of inserts.
C7_SizeCountsDistinct ==
    (fresh_only /\ panicked = "no") => size = Cardinality(LiveKeys)

\* C8: after inserts of pairwise distinct keys alone on a fresh table,
\* every key inserted so far reports has(key) = true.
C8_FreshKeysAllFound ==
    (fresh_only /\ panicked = "no") =>
        \A k \in LiveKeys : has(Self, k, overflow_checks) = "true"

\* C9: from an empty table, after every pair insert(k, v); delete(k) of a
\* sequence of such pairs, size() is 0.
C9_ChurnSizeZero == churn.at = "even" => (panicked = "no" /\ size = 0)

\* C9 witness: pairs have run, tombstones have accumulated and the inserts
\* have grown the table.
C9_Witness ==
    /\ churn.at = "even"
    /\ last.op = "delete"
    /\ wasted_capacity >= 2
    /\ capacity > MaxInitCapacity

\* C10: capacity() never decreases: no step of any operation makes it
\* smaller.
C10_CapacityNeverDecreases ==
    [][capacity_of(data') >= capacity_of(data)]_vars

\* C10 witness: the table has grown and a delete has run on the grown table.
C10_Witness ==
    /\ capacity > MaxInitCapacity
    /\ last.op = "delete"
    /\ panicked = "no"
    /\ wasted_capacity > 0

----------------------------------------------------------------------------
\* Where the scan of has, get, delete and get_pos ends for a key: "found",
\* "vacant" (the is_none() return, at slot pos), "budget" (the loop ran out)
\* or the panic.  The four loops make the same tests in the same order.
RECURSIVE scan_end_loop(_, _, _, _, _)
scan_end_loop(t, total_slots, key, checks, i) ==
    IF i >= total_slots THEN [tag |-> "budget", pos |-> 0]
    ELSE LET p == probe_pos(key, i, capacity_of(t.data), checks) IN
         IF p.tag # "ok" THEN [tag |-> p.tag, pos |-> 0]
         ELSE IF ~t.data[p.pos].some THEN [tag |-> "vacant", pos |-> p.pos]
         ELSE IF p.pos \in t.deleted
              THEN scan_end_loop(t, total_slots, key, checks, i + 1)
         ELSE IF t.data[p.pos].key = key THEN [tag |-> "found", pos |-> p.pos]
         ELSE scan_end_loop(t, total_slots, key, checks, i + 1)

scan_end(t, key, checks) ==
    scan_end_loop(t, t.deleted_slots + t.slots_used, key, checks, 0)

\* insert(k, _) would start a growth that does not complete.
GrowthFails(k) ==
    /\ get_pos(Self, k, overflow_checks).tag = "none"
    /\ slots_used + deleted_slots >= capacity
    /\ simple_resizer(Self, 2 * capacity + 1, overflow_checks).tag # "ok"

\* C11: when the growth of an insert cannot be completed, the table is left
\* in its pre-insert state: slots, tombstone set, slots_used, deleted_slots
\* and capacity are unchanged, never partially rehashed.
C11_FailedGrowthLeavesTable ==
    [][(last'.op = "insert" /\ panicked' # "no" /\ GrowthFails(last'.key))
         => UNCHANGED <<data, deleted, slots_used, deleted_slots>>]_vars

\* C12: the scan of has, get and delete never ends at a tombstoned slot: it
\* ends as not found only at a never written slot or when the budget of
\* slots_used + deleted_slots steps is used up.
C12_TombstoneDoesNotEndScan ==
    panicked = "no" =>
        \A k \in Keys :
            LET e == scan_end(Self, k, overflow_checks) IN
            e.tag = "vacant" => e.pos \notin deleted

\* C12, seen from outside: has(k) agrees with scan_end(k).
C12_ScanEndIsHas ==
    \A k \in Keys :
        LET e == scan_end(Self, k, overflow_checks).tag
            h == has(Self, k, overflow_checks) IN
        /\ (e = "found") = (h = "true")
        /\ (e \in {"vacant", "budget"}) = (h = "false")

\* C13: wasted_capacity() is the number of indices in the tombstone set, in
\* every reachable state.
C13_WastedCountsTombstones ==
    panicked = "no" => wasted_capacity = Cardinality(deleted)

----------------------------------------------------------------------------
\* C14: an insert that returns grows the table exactly when get_pos does not
\* find the key and slots_used + deleted_slots >= capacity; the capacity is
\* then exactly 2 * capacity + 1; an insert that overwrites a found key
\* leaves the capacity alone, also on a full table.
C14_GrowsExactlyWhenFull ==
    panicked = "no" =>
        \A k \in Keys, v \in Values :
            LET r == insert(Self, k, v, overflow_checks) IN
            r.tag = "ok" =>
                capacity_of(r.table.data)
                    = IF /\ get_pos(Self, k, overflow_checks).tag = "none"
                         /\ slots_used + deleted_slots >= capacity
                      THEN 2 * capacity + 1
                      ELSE capacity

\* An insert has just overwritten a key of a table that is full and has
\* grown before.
C14_Witness ==
    /\ last.op = "insert" /\ panicked = "no"
    /\ capacity > MaxInitCapacity
    /\ slots_used + deleted_slots >= capacity
    /\ insert(Self, last.key, last.value, overflow_checks).table = Self

----------------------------------------------------------------------------
\* The number of slots of t that hold the entry (k, v) and are not marked
\* deleted.
LiveCount(t, k, v) ==
    Cardinality({i \in DOMAIN t.data :
                    /\ t.data[i] = Some(k, v)
                    /\ i \notin t.deleted})

\* The number of slots of t that hold an entry.
OccupiedCount(t) == Cardinality({i \in DOMAIN t.data : t.data[i].some})

\* C15: when the table is full, a simple_resizer(2 * capacity + 1) that
\* returns keeps every live entry with its value (each (key, value) is held
\* by as many slots of the new array as live slots of the old), copies
\* nothing else, leaves the tombstone set empty and deleted_slots 0, and
\* leaves slots_used unchanged.
C15_GrowthPreservesLiveEntries ==
    (panicked = "no" /\ slots_used + deleted_slots >= capacity) =>
        LET r == simple_resizer(Self, 2 * capacity + 1, overflow_checks) IN
        r.tag = "ok" =>
            /\ \A k \in Keys, v \in Values :
                   LiveCount(r.table, k, v) = LiveCount(Self, k, v)
            /\ OccupiedCount(r.table)
                   = Cardinality({i \in DOMAIN data :
                                     data[i].some /\ i \notin deleted})
            /\ capacity_of(r.table.data) = 2 * capacity + 1
            /\ r.table.deleted = {}
            /\ r.table.deleted_slots = 0
            /\ r.table.slots_used = slots_used

\* A table that has grown before is full again and holds at least two live
\* entries and a tombstone; its next growth returns.
C15_Witness ==
    /\ panicked = "no"
    /\ capacity > MaxInitCapacity
    /\ slots_used + deleted_slots >= capacity
    /\ slots_used >= 2
    /\ deleted # {}
    /\ simple_resizer(Self, 2 * capacity + 1, overflow_checks).tag = "ok"

----------------------------------------------------------------------------
\* insert of a key of K that get_pos does not find returns, leaves (key,
\* value) in a slot not marked deleted, and adds exactly 1 to slots_used.
InsertStores(K) ==
    \A k \in K, v \in Values :
        get_pos(Self, k, overflow_checks).tag = "none" =>
            LET r == insert(Self, k, v, overflow_checks) IN
            /\ r.tag = "ok"
            /\ r.table.slots_used = slots_used + 1
            /\ LiveCount(r.table, k, v) >= 1

\* C16: an insert of a key that get_pos does not find always stores the
\* entry: it returns, some slot not marked deleted holds (key, value)
\* afterwards, and slots_used has grown by exactly 1.
C16_InsertAlwaysStores == panicked = "no" => InsertStores(Keys)

\* The same for the keys whose hash is the key itself.
C16_NonNegKeysStored == panicked = "no" => InsertStores(NonNegKeys)

----------------------------------------------------------------------------
\* No operation on t takes a probe index modulo a zero capacity.
NoIndexModZero(t) ==
    \A k \in Keys :
        /\ has(t, k, overflow_checks) # "divzero"
        /\ get(t, k, overflow_checks).tag # "divzero"
        /\ get_pos(t, k, overflow_checks).tag # "divzero"
        /\ delete(t, k, overflow_checks).tag # "divzero"
        /\ \A v \in Values : insert(t, k, v, overflow_checks).tag # "divzero"

\* C17: no operation ever takes a probe index modulo 0, and on a table of
\* capacity 0 has, get and delete return the miss outcome (false, None, no
\* change) and insert grows the array to one slot and stores the entry
\* there.
C17_ZeroCapacityUsable ==
    /\ panicked # "divzero"
    /\ panicked = "no" => NoIndexModZero(Self)
    /\ (panicked = "no" /\ capacity = 0) =>
           \A k \in Keys :
               /\ has(Self, k, overflow_checks) = "false"
               /\ get(Self, k, overflow_checks)
                      = [tag |-> "none", value |-> NoValue]
               /\ delete(Self, k, overflow_checks)
                      = [tag |-> "ok", table |-> Self]
               /\ \A v \in Values :
                      insert(Self, k, v, overflow_checks)
                          = [tag |-> "ok",
                             table |-> Table([i \in 0..0 |-> Some(k, v)],
                                             {}, 1, 0)]

\* A delete has returned on a table of capacity 0.
C17_Witness == capacity = 0 /\ last.op = "delete" /\ panicked = "no"

----------------------------------------------------------------------------
\* C18: after any sequence of inserts and deletes that returned, no two
\* slots that hold an entry hold equal keys.
C18_KeysStoredOnce ==
    panicked = "no" =>
        \A i, j \in DOMAIN data :
            (i # j /\ data[i].some /\ data[j].some)
                => data[i].key # data[j].key

----------------------------------------------------------------------------
\* On t, no probe of any key computes a sum hashed + i that passes the
\* largest usize (the outcome a build with overflow checks reports).
NoSumOverflow(t) ==
    \A k \in Keys :
        /\ get_pos(t, k, TRUE).tag # "overflow"
        /\ has(t, k, TRUE) # "overflow"
        /\ get(t, k, TRUE).tag # "overflow"
        /\ delete(t, k, TRUE).tag # "overflow"
        /\ \A v \in Values : insert(t, k, v, TRUE).tag # "overflow"

\* C19: for every key, negative keys included, no operation on a reachable
\* table computes a sum hashed + i above the largest usize.
C19_ProbeSumFitsWord ==
    /\ panicked # "overflow"
    /\ panicked = "no" => NoSumOverflow(Self)

----------------------------------------------------------------------------
\* C20: in every reachable state slots_used is the number of slots that
\* hold an entry, and no marked index is a slot that holds an entry.
C20_CountAndMarksMatchSlots ==
    /\ slots_used = OccupiedCount(Self)
    /\ \A i \in deleted : i \in DOMAIN data /\ ~data[i].some

\* An insert has reused a marked slot (the count of deletes is ahead of the
\* marks) and the table holds two entries and a mark.
C20_Witness ==
    /\ panicked = "no"
    /\ wasted_capacity > Cardinality(deleted)
    /\ deleted # {}
    /\ size >= 2

====
